---- MODULE Spec2Model ----
(***************************************************************************)
(* ConfigManager of the self_profile site: the configuration record kept   *)
(* in localStorage, its versioned migration and legacy-value rewrites, and *)
(* the public operations load / save / update / reset / forceRefresh; its  *)
(* image prober findLatestPfpImage / checkImageExists with the 24-hour     *)
(* cache it keeps in the same store; and the two controllers that call it, *)
(* AdminController.saveConfig and MainPageController.init / applyHero.     *)
(*                                                                         *)
(* JavaScript values are written as TLA+ strings: string literals as they  *)
(* stand in the source, the booleans true / false as "true" / "false",     *)
(* and the value undefined as Undefined.  An object is a function from its *)
(* own keys to values.  A localStorage item is a record: NullItem is what  *)
(* getItem returns for a missing key, Text(s) is the string s, and Json(o) *)
(* is the JSON text of the object o; Chars(seq) is a string given by its   *)
(* characters, as the decimal text of a time stamp is.                     *)
(*                                                                         *)
(* Spec is the state machine of the configuration operations.  SpecPfp is  *)
(* the state machine of the prober, one action per turn of the event loop: *)
(* the call up to its first await, and each event of a probe (load, error, *)
(* timer) together with the code that resumes after the await.  SpecPfpFair*)
(* adds that an armed timer fires.  SpecSite is the admin page: the        *)
(* constructor of AdminController and its saveConfig(), with reset() from  *)
(* the console.  SpecPage is the main page: the runs of init() of          *)
(* MainPageController and the probes they await.  SpecTabs is two tabs     *)
(* that each call update() on the store they share.                        *)
(***************************************************************************)
EXTENDS Integers, Sequences, FiniteSets, TLC

VARIABLES
    localStorage,   \* the browser store: key -> item
    defaultConfig,  \* this.defaultConfig of the ConfigManager singleton
    ret,            \* what the last public call did and returned
    prev,           \* the same for the call before it, where remembered
    now,            \* Date.now(), in ms since the first page view
    images,         \* the image paths the server holds
    pfp,            \* the findLatestPfpImage() call: position, locals, history
    settled,        \* the probe the last step settled: its promise, Image and
                    \* timer, followed until the next step of the call
    admin,          \* the AdminController: this.config, the form as submitted
                    \* and the message shown
    page,           \* the MainPageController: this.config, the src of the
                    \* profile image, and its runs of init()
    tabs            \* two tabs, each in a call of update(): its position,
                    \* its local current and what it returned

cfgVars == <<defaultConfig, ret, prev>>
pfpVars == <<now, images, pfp, settled>>
pageVars == <<admin, page, tabs>>
vars ==
    <<localStorage, defaultConfig, ret, prev, now, images, pfp, settled, admin,
      page, tabs>>

(***************************************************************************)
(* Bounds of the model                                                     *)
(***************************************************************************)
\* at most this many kinds of storage call throw during one operation
MaxFaults == 2
\* findLatestPfpImage() is called at most this many times
MaxCalls == 2

(***************************************************************************)
(* Constructor fields                                                      *)
(***************************************************************************)
storageKey == "fnp-site-config"
versionKey == "fnp-site-config-version"
configVersion == "2.0"
\* locals of findLatestPfpImage
cacheKey == "fnp-latest-pfp-cache"
cacheTimeKey == "fnp-latest-pfp-cache-time"
cacheDuration == 24 * 60 * 60 * 1000
maxAttempts == 20
fallback == "assets/images/placeholder-profile.svg"

Undefined == "<undefined>"

EmptyObj == [k \in {} |-> ""]

getDefaultConfig ==
    [ heroName |-> "Rujita Munankarmi, FNP",
      heroSubtitle |-> "<strong>Primary care</strong> with <span class=\"accent\">CKD & hypertension</span> prevention and management",
      profileImageUrl |-> "assets/images/pfp.jpg",
      acceptingPatients |-> "false",
      availabilityStatus |-> "Please contact us to inquire about availability.",
      showHeaderNav |-> "false",
      showHeaderLogo |-> "false",
      showHeroAvailability |-> "false",
      showHeroCTA |-> "false",
      showFooterCopyright |-> "true",
      bannerEnabled |-> "false",
      bannerText |-> "",
      bannerType |-> "info",
      theme |-> "default",
      businessName |-> "CarenexLLC",
      contactEmail |-> "carenex.np@gmail.com",
      location |-> "Harford County, Maryland",
      showContactBusiness |-> "false",
      showContactLocation |-> "true",
      showContactEmail |-> "true",
      showContactAvailability |-> "true" ]

(***************************************************************************)
(* localStorage items, JSON.stringify and JSON.parse                       *)
(***************************************************************************)
NullItem == [kind |-> "null", text |-> "", obj |-> EmptyObj]
Text(s) == [kind |-> "text", text |-> s, obj |-> EmptyObj]
Json(o) == [kind |-> "json", text |-> "", obj |-> o]

\* if (stored): null and the empty string are falsy
TruthyAlways(item) == TRUE
Truthy(item) == item.kind # "null" /\ ~(item.kind = "text" /\ item.text = "")

\* JSON.stringify(object): a key whose value is undefined is left out
JSONstringify(o) ==
    Json([k \in {x \in DOMAIN o : o[x] # Undefined} |-> o[k]])

\* JSON.parse(text): an object, null for the text "null", a SyntaxError otherwise
JSONparse(item) ==
    IF item.kind = "json" THEN [exc |-> FALSE, isNull |-> FALSE, obj |-> item.obj]
    ELSE IF item.kind = "text" /\ item.text = "null"
         THEN [exc |-> FALSE, isNull |-> TRUE, obj |-> EmptyObj]
         ELSE [exc |-> TRUE, isNull |-> FALSE, obj |-> EmptyObj]

\* { ...a, ...b }
Merge(a, b) ==
    [k \in DOMAIN a \cup DOMAIN b |-> IF k \in DOMAIN b THEN b[k] ELSE a[k]]

\* { ...this.defaultConfig }: a new object, not the field itself
AliasDefaults(dflt) == [obj |-> dflt, ref |-> "defaultConfig"]
CopyDefaults(dflt) == [obj |-> dflt, ref |-> "copy"]

(***************************************************************************)
(* Migration steps of load()                                               *)
(***************************************************************************)
\* needsMigration = storedVersion !== this.configVersion
NeedsMigrationAlways(storedVersion) == TRUE
NeedsMigration(storedVersion) == storedVersion # Text(configVersion)

\* merged = {...defaults}; then every key of parsed that defaults owns
MigrateFromEmpty(dflt, parsed) ==
    [k \in DOMAIN parsed \cap DOMAIN dflt |-> parsed[k]]
MigrateKeepAll(dflt, parsed) ==
    [k \in DOMAIN dflt \cup DOMAIN parsed |->
        IF k \in DOMAIN parsed THEN parsed[k] ELSE dflt[k]]
MigrateMerge(dflt, parsed) ==
    [k \in DOMAIN dflt |-> IF k \in DOMAIN parsed THEN parsed[k] ELSE dflt[k]]

\* the five literal rewrites, in source order
RulesWithoutImage ==
    << [field |-> "location",
        old |-> "Bel Air, Maryland (serving surrounding communities)",
        new |-> "Harford County, Maryland"],
       [field |-> "heroName", old |-> "Jane Doe, FNP",
        new |-> "Rujita Munankarmi, FNP"],
       [field |-> "businessName", old |-> "dummyLLC", new |-> "CarenexLLC"],
       [field |-> "contactEmail", old |-> "contact@dummyllc.com",
        new |-> "carenex.np@gmail.com"] >>
RulesChained ==
    << [field |-> "location",
        old |-> "Bel Air, Maryland (serving surrounding communities)",
        new |-> "Harford County, Maryland"],
       [field |-> "heroName", old |-> "Jane Doe, FNP",
        new |-> "Rujita Munankarmi, FNP"],
       [field |-> "businessName", old |-> "dummyLLC", new |-> "CarenexLLC"],
       [field |-> "contactEmail", old |-> "contact@dummyllc.com",
        new |-> "carenex.np@gmail.com"],
       [field |-> "profileImageUrl",
        old |-> "assets/images/placeholder-profile.svg",
        new |-> "assets/images/pfp.jpg"],
       [field |-> "heroName", old |-> "Dr. Custom", new |-> "Jane Doe, FNP"] >>
LegacyRules ==
    << [field |-> "location",
        old |-> "Bel Air, Maryland (serving surrounding communities)",
        new |-> "Harford County, Maryland"],
       [field |-> "heroName", old |-> "Jane Doe, FNP",
        new |-> "Rujita Munankarmi, FNP"],
       [field |-> "businessName", old |-> "dummyLLC", new |-> "CarenexLLC"],
       [field |-> "contactEmail", old |-> "contact@dummyllc.com",
        new |-> "carenex.np@gmail.com"],
       [field |-> "profileImageUrl",
        old |-> "assets/images/placeholder-profile.svg",
        new |-> "assets/images/pfp.jpg"] >>

\* if (merged.f === old) { merged.f = new; needsSave = true; } for rules i..
RECURSIVE ApplyRulesFrom(_, _, _)
ApplyRulesFrom(i, merged, needsSave) ==
    IF i > Len(LegacyRules) THEN [obj |-> merged, needsSave |-> needsSave]
    ELSE LET r == LegacyRules[i]
         IN IF r.field \in DOMAIN merged /\ merged[r.field] = r.old
            THEN ApplyRulesFrom(i + 1, [merged EXCEPT ![r.field] = r.new], TRUE)
            ELSE ApplyRulesFrom(i + 1, merged, needsSave)

(***************************************************************************)
(* Outcome of a call: the store it leaves, what it returns (obj for an     *)
(* object, bool for a boolean), whether an exception leaves the function   *)
(* (exc), the kinds of storage call that threw (threwAt), the keys         *)
(* it wrote or removed, the branch load() took, the keys the migration     *)
(* dropped, and whether the returned object is this.defaultConfig itself.  *)
(***************************************************************************)
Outcome(ls, obj, bool, exc, threwAt, wrote, path, dropped, ref) ==
    [ls |-> ls, obj |-> obj, bool |-> bool, exc |-> exc, threwAt |-> threwAt,
     wrote |-> wrote, path |-> path, dropped |-> dropped, ref |-> ref]

Throw(ls, threwAt, wrote, path) ==
    Outcome(ls, EmptyObj, FALSE, TRUE, threwAt, wrote, path, {}, "none")

\* save(config) without its catch block
SaveTryDefaultsWin(ls, dflt, config, flt) ==
    LET merged == Merge(config, dflt)
    IN IF "setItem(config)" \in flt
       THEN Throw(ls, {"setItem(config)"}, {}, "save")
       ELSE Outcome([ls EXCEPT ![storageKey] = JSONstringify(merged)],
                    EmptyObj, TRUE, FALSE, {}, {storageKey}, "save", {}, "none")
SaveTry(ls, dflt, config, flt) ==
    LET merged == Merge(dflt, config)
    IN IF "setItem(config)" \in flt
       THEN Throw(ls, {"setItem(config)"}, {}, "save")
       ELSE Outcome([ls EXCEPT ![storageKey] = JSONstringify(merged)],
                    EmptyObj, TRUE, FALSE, {}, {storageKey}, "save", {}, "none")

\* save(config)
SaveNoCatch(ls, dflt, config, flt) == SaveTry(ls, dflt, config, flt)
SaveReturnsTrue(ls, dflt, config, flt) ==
    [SaveTry(ls, dflt, config, flt) EXCEPT !.exc = FALSE, !.bool = TRUE]
save(ls, dflt, config, flt) ==
    LET r == SaveTry(ls, dflt, config, flt)
    IN IF r.exc THEN [r EXCEPT !.exc = FALSE, !.bool = FALSE] ELSE r

\* the try block of load()
LoadTry(ls, dflt, flt) ==
    \* the two getItem calls
    IF "getItem" \in flt THEN Throw(ls, {"getItem"}, {}, "error")
    ELSE
    LET storedVersion == ls[versionKey]
        stored == ls[storageKey]
        needsMigration == NeedsMigration(storedVersion)
    IN IF Truthy(stored)
       THEN LET p == JSONparse(stored)
            IN IF p.exc THEN Throw(ls, {}, {}, "error")
               \* Object.keys(null) is a TypeError
               ELSE IF needsMigration /\ p.isNull THEN Throw(ls, {}, {}, "error")
               ELSE
               LET merged0 == IF needsMigration
                              THEN MigrateMerge(dflt, p.obj)
                              ELSE Merge(dflt, p.obj)
                   dropped == IF needsMigration
                              THEN DOMAIN p.obj \ DOMAIN dflt ELSE {}
                   rw == ApplyRulesFrom(1, merged0, needsMigration)
                   path == IF needsMigration THEN "migrate"
                           ELSE IF rw.needsSave THEN "rewrite" ELSE "plain"
               IN IF rw.needsSave
                  THEN LET s == save(ls, dflt, rw.obj, flt)
                       IN IF s.exc THEN Throw(s.ls, s.threwAt, s.wrote, "error")
                          ELSE IF "setItem(version)" \in flt
                          THEN Throw(s.ls, s.threwAt \cup {"setItem(version)"}, s.wrote, "error")
                          ELSE Outcome(
                                 [s.ls EXCEPT ![versionKey] = Text(configVersion)],
                                 rw.obj, TRUE, FALSE, s.threwAt,
                                 s.wrote \cup {versionKey}, path, dropped, "copy")
                  ELSE Outcome(ls, rw.obj, TRUE, FALSE, {}, {}, path, {}, "copy")
       ELSE IF "setItem(version)" \in flt THEN Throw(ls, {"setItem(version)"}, {}, "error")
            ELSE LET c == CopyDefaults(dflt)
                 IN Outcome([ls EXCEPT ![versionKey] = Text(configVersion)],
                            c.obj, TRUE, FALSE, {}, {versionKey}, "noblob", {},
                            c.ref)

\* load(): the catch block logs and falls through to return { ...defaults }
load(ls, dflt, flt) ==
    LET r == LoadTry(ls, dflt, flt)
    IN IF r.exc
       THEN LET c == CopyDefaults(dflt)
            IN [r EXCEPT !.exc = FALSE, !.obj = c.obj, !.bool = TRUE,
                         !.ref = c.ref]
       ELSE r

\* update(updates): no try of its own
UpdateOnlyUpdates(ls, dflt, updates, flt) ==
    LET current == load(ls, dflt, flt)
    IN IF current.exc THEN current
       ELSE LET s == save(current.ls, dflt, updates, flt)
            IN [s EXCEPT !.threwAt = current.threwAt \cup s.threwAt,
                         !.wrote = current.wrote \cup s.wrote,
                         !.path = "update"]
update(ls, dflt, updates, flt) ==
    LET current == load(ls, dflt, flt)
    IN IF current.exc THEN current
       ELSE LET s == save(current.ls, dflt, Merge(current.obj, updates), flt)
            IN [s EXCEPT !.threwAt = current.threwAt \cup s.threwAt,
                         !.wrote = current.wrote \cup s.wrote,
                         !.path = "update"]

\* reset() without its catch block
ResetTryClearsToken(ls, dflt, flt) ==
    IF "removeItem" \in flt THEN Throw(ls, {"removeItem"}, {}, "reset")
    ELSE Outcome([ls EXCEPT ![storageKey] = NullItem, ![versionKey] = NullItem],
                 EmptyObj, TRUE, FALSE, {}, {storageKey}, "reset", {}, "none")
ResetTry(ls, dflt, flt) ==
    IF "removeItem" \in flt THEN Throw(ls, {"removeItem"}, {}, "reset")
    ELSE Outcome([ls EXCEPT ![storageKey] = NullItem], EmptyObj, TRUE, FALSE,
                 {}, {storageKey}, "reset", {}, "none")

\* reset()
reset(ls, dflt, flt) ==
    LET r == ResetTry(ls, dflt, flt)
    IN IF r.exc THEN [r EXCEPT !.exc = FALSE, !.bool = FALSE] ELSE r

\* forceRefresh()
forceRefreshKeepsRecord(ls, dflt, flt) == load(ls, dflt, flt)
forceRefresh(ls, dflt, flt) ==
    LET c == CopyDefaults(dflt)
        caught(ls1, threwAt, wrote) ==
            Outcome(ls1, c.obj, TRUE, FALSE, threwAt, wrote, "error", {}, c.ref)
    IN IF "removeItem" \in flt THEN caught(ls, {"removeItem"}, {})
       ELSE LET ls1 == [ls EXCEPT ![storageKey] = NullItem]
            IN IF "setItem(version)" \in flt THEN caught(ls1, {"setItem(version)"}, {storageKey})
               ELSE LET ls2 == [ls1 EXCEPT ![versionKey] = Text(configVersion)]
                        r == load(ls2, dflt, flt)
                    IN IF r.exc
                       THEN caught(r.ls, r.threwAt,
                                   r.wrote \cup {storageKey, versionKey})
                       ELSE [r EXCEPT !.wrote = @ \cup {storageKey, versionKey}]

(***************************************************************************)
(* Inputs                                                                  *)
(***************************************************************************)
\* the storage calls each operation makes; a fault set names the calls that
\* throw whenever the operation makes them
LoadSites == {"getItem", "setItem(config)", "setItem(version)"}
SaveSites == {"setItem(config)"}
ResetSites == {"removeItem"}
RefreshSites == {"removeItem"} \cup LoadSites

FaultSets(sites) == {S \in SUBSET sites : Cardinality(S) <= MaxFaults}

\* what save() of the first ConfigManager wrote for an untouched form
LegacyBlob ==
    [ heroName |-> "Jane Doe, FNP",
      profileImageUrl |-> "assets/images/placeholder-profile.svg",
      theme |-> "winter",
      businessName |-> "dummyLLC",
      contactEmail |-> "contact@dummyllc.com",
      location |-> "Bel Air, Maryland (serving surrounding communities)",
      heroTagline |-> "Compassionate care" ]

\* what the store may hold when this ConfigManager first runs: no token or
\* the token of an earlier version, with any config record
InitialBlobs ==
    { NullItem, Text("{not json"), Text("null"),
      Json(LegacyBlob),
      Json([theme |-> "winter", foo |-> "bar"]),
      Json([theme |-> "winter"]),
      Json(getDefaultConfig) }

InitialVersions == { NullItem, Text("1.0") }

\* what this ConfigManager leaves under its own token before any save()
CurrentBlobs == { NullItem, Json(getDefaultConfig) }

Store(blob, version) ==
    [k \in {storageKey, versionKey, cacheKey, cacheTimeKey} |->
        IF k = storageKey THEN blob
        ELSE IF k = versionKey THEN version
        ELSE NullItem]

\* arguments of save() and update()
PartialConfigs ==
    { EmptyObj,
      [theme |-> "winter"],
      [theme |-> Undefined],
      [heroName |-> "Jane Doe, FNP"],
      [heroTagline |-> "Compassionate care", heroName |-> "Dr. Custom"] }

(***************************************************************************)
(* The image prober: strings, numbers and the cache                        *)
(***************************************************************************)
\* `assets/images/pfp${i}.jpg`
imagePath(i) == "assets/images/pfp" \o ToString(i) \o ".jpg"

\* a string given by its characters
Chars(seq) == [kind |-> "chars", text |-> "", obj |-> EmptyObj, chars |-> seq]

DigitChars == <<"0", "1", "2", "3", "4", "5", "6", "7", "8", "9">>

\* Date.now().toString()
RECURSIVE NumberToString(_)
NumberToString(n) ==
    IF n < 10 THEN <<DigitChars[n + 1]>>
    ELSE Append(NumberToString(n \div 10), DigitChars[(n % 10) + 1])

NaN == [nan |-> TRUE, val |-> 0]
Number(n) == [nan |-> FALSE, val |-> n]

IsDigit(c) == \E d \in 1..10 : DigitChars[d] = c
DigitOf(c) == (CHOOSE d \in 1..10 : DigitChars[d] = c) - 1

RECURSIVE LeadingDigits(_, _)
LeadingDigits(seq, acc) ==
    IF seq = <<>> \/ ~IsDigit(Head(seq)) THEN acc
    ELSE LeadingDigits(Tail(seq), acc * 10 + DigitOf(Head(seq)))

\* parseInt(string, 10): the number its leading decimal digits spell, NaN
\* when it starts with none (the strings here carry no sign or blanks)
parseInt(item) ==
    IF item.kind = "chars" /\ item.chars # <<>> /\ IsDigit(Head(item.chars))
    THEN Number(LeadingDigits(item.chars, 0))
    ELSE NaN

\* age < cacheDuration with age = Date.now() - parseInt(cacheTime, 10);
\* a comparison with NaN is false
FreshNever(cacheTime, t) == FALSE
FreshAtDuration(cacheTime, t) ==
    LET stamp == parseInt(cacheTime)
    IN ~stamp.nan /\ t - stamp.val <= cacheDuration
Fresh(cacheTime, t) ==
    LET stamp == parseInt(cacheTime)
    IN ~stamp.nan /\ t - stamp.val < cacheDuration

\* the try block that writes the cache: setItem of the path, then of the time
WriteCachePathOnly(ls, path, t, flt) ==
    IF "setItem(cache)" \in flt
    THEN [ls |-> ls, threwAt |-> {"setItem(cache)"}]
    ELSE [ls |-> [ls EXCEPT ![cacheKey] = Text(path)], threwAt |-> {}]
WriteCache(ls, path, t, flt) ==
    IF "setItem(cache)" \in flt
    THEN [ls |-> ls, threwAt |-> {"setItem(cache)"}]
    ELSE IF "setItem(cacheTime)" \in flt
    THEN [ls |-> [ls EXCEPT ![cacheKey] = Text(path)],
          threwAt |-> {"setItem(cacheTime)"}]
    ELSE [ls |-> [ls EXCEPT ![cacheKey] = Text(path),
                            ![cacheTimeKey] = Chars(NumberToString(t))],
          threwAt |-> {}]

(***************************************************************************)
(* checkImageExists: the promise, the Image and the timer of one probe     *)
(***************************************************************************)
NoProbe == [path |-> "", value |-> "none", timer |-> "none", img |-> "none"]

\* the promise is pending, the timer armed, the Image loading
checkImageExists(path) ==
    [path |-> path, value |-> "pending", timer |-> "armed", img |-> "loading"]

\* resolve(v): settles a pending promise, does nothing to a settled one
ResolveAgain(probe, v) == [probe EXCEPT !.value = v]
Resolve(probe, v) ==
    IF probe.value = "pending" THEN [probe EXCEPT !.value = v] ELSE probe

\* clearTimeout(timeout): disarms an armed timer
ClearTimeout(probe) ==
    IF probe.timer = "armed" THEN [probe EXCEPT !.timer = "cleared"] ELSE probe

\* img.onload, img.onerror and the callback of setTimeout
onload(probe) == Resolve(ClearTimeout([probe EXCEPT !.img = "loaded"]), "true")
onerrorResolvesTrue(probe) ==
    Resolve(ClearTimeout([probe EXCEPT !.img = "failed"]), "true")
onerror(probe) == Resolve(ClearTimeout([probe EXCEPT !.img = "failed"]), "false")
ontimeout(probe) == Resolve([probe EXCEPT !.timer = "fired"], "false")

(***************************************************************************)
(* findLatestPfpImage, from one await to the next.  The record of a call:  *)
(* its position (pc: at the await of the cache probe, of a candidate's     *)
(* probe, or not running), the locals i and cached, the probe awaited, and *)
(* for the properties the probes settled so far, the storage calls and     *)
(* probes that threw, the store and clock the call found and whether the   *)
(* call before it wrote the cache (atCall), how it returned (via), what it *)
(* returned and when.                                                      *)
(***************************************************************************)
NoResolution ==
    [pc |-> "idle", i |-> 0, cached |-> "", probe |-> NoProbe,
     probed |-> <<>>, threwAt |-> {}, via |-> "none", result |-> "",
     rejected |-> FALSE, calls |-> 0, returnedAt |-> 0,
     atCall |-> [cache |-> NullItem, cacheTime |-> NullItem, now |-> 0,
                 images |-> {}, afterCaching |-> FALSE]]

\* the call reached a cache write and both setItem calls went through
WroteCache(st) ==
    /\ st.via \in {"scan", "fallback"}
    /\ st.threwAt \cap {"setItem(cache)", "setItem(cacheTime)"} = {}

\* return value
Return(st, value, via, t) ==
    [st EXCEPT !.pc = "idle", !.probe = NoProbe, !.result = value,
               !.via = via, !.returnedAt = t]

\* an exception leaves the async function: its promise rejects
Reject(st, t) ==
    [st EXCEPT !.pc = "idle", !.probe = NoProbe, !.rejected = TRUE,
               !.via = "rejected", !.returnedAt = t]

\* i >= 1, the test of the for loop
LoopTestFromTwo(i) == i >= 2
LoopTest(i) == i >= 1

\* the loop body for candidate i up to its await; the call to
\* checkImageExists stands in no try block
ProbeCandidateAscending(st, i, t, flt) ==
    IF "probe" \in flt
    THEN Reject([st EXCEPT !.threwAt = @ \cup {"probe"}], t)
    ELSE [st EXCEPT !.pc = "scan", !.i = i,
                    !.probe = checkImageExists(imagePath(maxAttempts - i + 1))]
ProbeCandidate(st, i, t, flt) ==
    IF "probe" \in flt
    THEN Reject([st EXCEPT !.threwAt = @ \cup {"probe"}], t)
    ELSE [st EXCEPT !.pc = "scan", !.i = i,
                    !.probe = checkImageExists(imagePath(i))]

\* the call up to its first await: the cache check, then either the probe
\* of the cached path or the first turn of the loop
Enter(st, ls, t, imgs, flt) ==
    LET entered == [NoResolution EXCEPT
                      !.calls = st.calls + 1,
                      !.atCall = [cache |-> ls[cacheKey],
                                  cacheTime |-> ls[cacheTimeKey],
                                  now |-> t, images |-> imgs,
                                  afterCaching |-> WroteCache(st)]]
    IN IF "getItem" \in flt
       THEN ProbeCandidate([entered EXCEPT !.threwAt = {"getItem"}],
                           maxAttempts, t, flt)
       ELSE LET cached == ls[cacheKey]
                cacheTime == ls[cacheTimeKey]
            IN IF Truthy(cached) /\ Truthy(cacheTime) /\ Fresh(cacheTime, t)
               THEN IF "probe" \in flt
                    THEN ProbeCandidate([entered EXCEPT !.threwAt = {"probe"}],
                                        maxAttempts, t, flt)
                    ELSE [entered EXCEPT
                            !.pc = "revalidate", !.cached = cached.text,
                            !.probe = checkImageExists(cached.text)]
               ELSE ProbeCandidate(entered, maxAttempts, t, flt)

\* the code after an await whose probe has settled, up to the next await or
\* the return
ResumeSliding(st, ls, t, flt) ==
    LET exists == st.probe.value = "true"
        s1 == [st EXCEPT !.probed =
                 Append(@, [path |-> st.probe.path, exists |-> exists])]
    IN IF st.pc = "revalidate"
       THEN IF exists
            THEN [pfp |-> Return(s1, st.cached, "fast", t),
                  ls |-> WriteCache(ls, st.cached, t, {}).ls]
            ELSE [pfp |-> ProbeCandidate(s1, maxAttempts, t, flt), ls |-> ls]
       ELSE IF exists
       THEN LET w == WriteCache(ls, imagePath(st.i), t, flt)
            IN [pfp |-> Return([s1 EXCEPT !.threwAt = @ \cup w.threwAt],
                               imagePath(st.i), "scan", t),
                ls |-> w.ls]
       ELSE IF LoopTest(st.i - 1)
       THEN [pfp |-> ProbeCandidate(s1, st.i - 1, t, flt), ls |-> ls]
       ELSE LET w == WriteCache(ls, fallback, t, flt)
            IN [pfp |-> Return([s1 EXCEPT !.threwAt = @ \cup w.threwAt],
                               fallback, "fallback", t),
                ls |-> w.ls]
Resume(st, ls, t, flt) ==
    LET exists == st.probe.value = "true"
        s1 == [st EXCEPT !.probed =
                 Append(@, [path |-> st.probe.path, exists |-> exists])]
    IN IF st.pc = "revalidate"
       THEN IF exists
            THEN [pfp |-> Return(s1, st.cached, "fast", t), ls |-> ls]
            ELSE [pfp |-> ProbeCandidate(s1, maxAttempts, t, flt), ls |-> ls]
       ELSE IF exists
       THEN LET w == WriteCache(ls, imagePath(st.i), t, flt)
            IN [pfp |-> Return([s1 EXCEPT !.threwAt = @ \cup w.threwAt],
                               imagePath(st.i), "scan", t),
                ls |-> w.ls]
       ELSE IF LoopTest(st.i - 1)
       THEN [pfp |-> ProbeCandidate(s1, st.i - 1, t, flt), ls |-> ls]
       ELSE LET w == WriteCache(ls, fallback, t, flt)
            IN [pfp |-> Return([s1 EXCEPT !.threwAt = @ \cup w.threwAt],
                               fallback, "fallback", t),
                ls |-> w.ls]

\* the storage calls and the constructor of Image that may throw
EnterSites == {"getItem", "probe"}
ResumeSites == {"setItem(cache)", "setItem(cacheTime)", "probe"}

\* what the server may hold, and what the clock may show
\* the server holds the placeholder; of the candidates it may hold these
Uploads == {imagePath(1), imagePath(2)}
Clock == {0, cacheDuration - 1, cacheDuration}

\* the cache records an earlier page view may have left
InitialCaches ==
    { <<NullItem, NullItem>> }
    \cup { <<Text(imagePath(1)), c>> :
             c \in { Chars(NumberToString(0)), Chars(<<"N", "a", "N">>),
                     Chars(<<"1", "x">>) } }

(***************************************************************************)
(* AdminController.saveConfig: the form, its validation and the save.  The *)
(* text of the two validated controls is given by its characters.          *)
(***************************************************************************)
\* String.prototype.trim: white space is taken off both ends
RECURSIVE TrimStart(_)
TrimStart(chars) ==
    IF chars # <<>> /\ Head(chars) = " " THEN TrimStart(Tail(chars)) ELSE chars

RECURSIVE TrimEnd(_)
TrimEnd(chars) ==
    IF chars # <<>> /\ chars[Len(chars)] = " "
    THEN TrimEnd(SubSeq(chars, 1, Len(chars) - 1))
    ELSE chars

trim(chars) == TrimEnd(TrimStart(chars))

\* the string of these characters
RECURSIVE StringOf(_)
StringOf(chars) ==
    IF chars = <<>> THEN "" ELSE Head(chars) \o StringOf(Tail(chars))

\* /^[^\s@]+@[^\s@]+\.[^\s@]+$/ run as an automaton.  Its positions: 1 at
\* the start, 2 in the first [^\s@]+, 3 past the @, 4 in the second [^\s@]+,
\* 5 past the \. and 6 in the third [^\s@]+, where the text may end.  A dot
\* read at 4 is one more character of the class or the \. of the pattern.
RegexStep(q, c) ==
    IF c \in {" ", "@"}
    THEN IF c = "@" /\ q = 2 THEN {3} ELSE {}
    ELSE CASE q = 1 -> {2}
           [] q = 2 -> {2}
           [] q = 3 -> {4}
           [] q = 4 -> IF c = "." THEN {4, 5} ELSE {4}
           [] q = 5 -> {6}
           [] q = 6 -> {6}

RECURSIVE RegexRun(_, _)
RegexRun(qs, chars) ==
    IF chars = <<>> THEN qs
    ELSE RegexRun(UNION {RegexStep(q, Head(chars)) : q \in qs}, Tail(chars))

\* emailRegex.test(text)
emailRegexAcceptsAll(chars) == TRUE
emailRegex(chars) == 6 \in RegexRun({1}, chars)

\* the object saveConfig() collects from the controls: .checked of the check
\* boxes, .value of the selects, .value.trim() of the text inputs
FormData(form) ==
    [ bannerEnabled |-> form.bannerEnabled,
      bannerText |-> StringOf(trim(form.bannerText)),
      bannerType |-> form.bannerType,
      theme |-> form.theme,
      profileImageUrl |-> StringOf(trim(form.profileImageUrl)),
      heroName |-> StringOf(trim(form.heroName)),
      heroSubtitle |-> StringOf(trim(form.heroSubtitle)),
      heroTagline |-> StringOf(trim(form.heroTagline)),
      acceptingPatients |-> form.acceptingPatients,
      availabilityStatus |-> StringOf(trim(form.availabilityStatus)),
      businessName |-> StringOf(trim(form.businessName)),
      location |-> StringOf(trim(form.location)),
      contactEmail |-> StringOf(trim(form.contactEmail)) ]

\* showMessage(message, type)
Message(message, type) == [message |-> message, type |-> type]
NoMessage == Message("", "none")

\* the controller before its constructor has run
NoAdmin ==
    [op |-> "none", config |-> EmptyObj, form |-> EmptyObj, shown |-> NoMessage,
     saved |-> FALSE]

\* saveConfig(): what it shows, whether it called configManager.save(), the
\* outcome of that call and this.config afterwards
Aborted(ls, config, message) ==
    [ls |-> ls, config |-> config, shown |-> Message(message, "error"),
     saved |-> FALSE,
     call |-> Outcome(ls, EmptyObj, FALSE, FALSE, {}, {}, "none", {}, "none")]

saveConfig(ls, dflt, config, form, flt) ==
    LET formData == FormData(form)
    IN IF formData.heroName = ""
       THEN Aborted(ls, config, "Display name is required")
       ELSE IF formData.contactEmail = ""
       THEN Aborted(ls, config, "Contact email is required")
       ELSE IF ~emailRegex(trim(form.contactEmail))
       THEN Aborted(ls, config, "Please enter a valid email address")
       ELSE LET r == save(ls, dflt, formData, flt)
            IN [ls |-> r.ls,
                config |-> IF r.bool THEN formData ELSE config,
                shown |-> IF r.bool
                          THEN Message("Configuration saved successfully! Changes will appear on the main page.", "success")
                          ELSE Message("Error saving configuration. Please try again.", "error"),
                saved |-> TRUE, call |-> r]

\* what is typed into the display name and the contact email
HeroNames == { <<>>, <<" ">>, <<" ", "D", "r", " ">> }

ContactEmails ==
    { <<" ", " ">>,
      <<"a", "@", "b">>,
      <<"a", "@", ".", "c">>,
      <<"@", "b", ".", "c">>,
      <<"a", "@", "@", "b", ".", "c">>,
      <<"a", " ", "b", "@", "c", ".", "d">>,
      <<" ", "a", "@", "b", ".", "c", " ">>,
      <<"a", ".", "b", "@", ".", ".", "c">> }

\* the other controls as the page filled them in
Forms ==
    { [ bannerEnabled |-> "false", bannerText |-> <<>>, bannerType |-> "info",
        theme |-> "winter", profileImageUrl |-> <<"p", "f", "p">>,
        heroName |-> n, heroSubtitle |-> <<>>, heroTagline |-> <<" ">>,
        acceptingPatients |-> "true", availabilityStatus |-> <<>>,
        businessName |-> <<"L", "L", "C">>, location |-> <<>>,
        contactEmail |-> e ] : n \in HeroNames, e \in ContactEmails }

\* the config record an earlier visit of the admin page may have left
SiteBlobs == { NullItem, Text("{not json"), Json(LegacyBlob) }

\* the cache records a page view may have left in the store
CacheLeft ==
    { <<NullItem, NullItem>>,
      <<Text(imagePath(1)), Chars(NumberToString(0))>> }

(***************************************************************************)
(* MainPageController: init() and applyHero(), from one await to the next. *)
(* A run of init() is the constructor's or that of refreshAll(); its       *)
(* record holds its position, the local imageToUse of applyHero and the    *)
(* call of findLatestPfpImage it awaits, and for the properties the config *)
(* it loaded and whether the other run stood at its await when it began.   *)
(***************************************************************************)
\* the values of profileImageUrl, by their characters
UrlChars ==
    { <<"a", "s", "s", "e", "t", "s", "/", "i", "m", "a", "g", "e", "s", "/",
        "p", "f", "p", ".", "j", "p", "g">>,
      <<"a", "s", "s", "e", "t", "s", "/", "i", "m", "a", "g", "e", "s", "/",
        "m", "e", ".", "p", "n", "g">> }

ProfileImageUrls == { StringOf(chars) : chars \in UrlChars }

CharsOf(url) == CHOOSE chars \in UrlChars : StringOf(chars) = url

\* String.prototype.includes
includes(chars, sub) ==
    \E k \in 0..(Len(chars) - Len(sub)) :
        SubSeq(chars, k + 1, k + Len(sub)) = sub

Runs == {"constructor", "refreshAll"}

NoRun ==
    [pc |-> "none", imageToUse |-> "", call |-> NoResolution,
     loaded |-> EmptyObj, overlapped |-> FALSE]

NoPage ==
    [config |-> EmptyObj, src |-> "", setBy |-> "none",
     runs |-> [r \in Runs |-> NoRun]]

\* if (imageToUse) profileImage.src = imageToUse, and the end of init()
SetImage(pg, r, run, imageToUse) ==
    [pg EXCEPT !.src = IF imageToUse # "" THEN imageToUse ELSE @,
               !.setBy = IF imageToUse # "" THEN r ELSE @,
               !.runs[r] = [run EXCEPT !.pc = "done",
                                       !.imageToUse = imageToUse]]

\* applyHero() up to its await, or to its end when it awaits nothing
applyHero(pg, r, run, ls, t, imgs) ==
    LET imageToUse == pg.config["profileImageUrl"]
    IN IF imageToUse # "" /\ includes(CharsOf(imageToUse), <<"p", "f", "p">>)
       THEN [pg EXCEPT !.runs[r] =
               [run EXCEPT !.pc = "awaiting", !.imageToUse = imageToUse,
                           !.call = Enter(NoResolution, ls, t, imgs, {})]]
       ELSE SetImage(pg, r, run, imageToUse)

\* applyHero() after its await: the call has returned latest, or has thrown
applyHeroResumed(pg, r, call) ==
    LET run == [pg.runs[r] EXCEPT !.call = call]
        latest == call.result
    IN IF call.rejected THEN SetImage(pg, r, run, fallback)
       ELSE IF latest # "" THEN SetImage(pg, r, run, latest)
       ELSE SetImage(pg, r, run, run.imageToUse)

\* init() once this.config is loaded: applyHero() on a new run
init(pg, r, loaded, ls, t, imgs) ==
    LET run == [NoRun EXCEPT !.loaded = loaded,
                             !.overlapped =
                                 \E o \in Runs \ {r} : pg.runs[o].pc = "awaiting"]
    IN applyHero([pg EXCEPT !.config = loaded], r, run, ls, t, imgs)

\* the code that resumes when findLatestPfpImage() has gone on to call: the
\* run waits on while the call does, and goes on in applyHero() when the
\* call has returned or thrown
Settle(pg, r, call) ==
    IF call.pc = "idle" THEN applyHeroResumed(pg, r, call)
    ELSE [pg EXCEPT !.runs[r].call = call]

\* what the server holds while the page is shown
Served == { {}, {imagePath(1)}, {imagePath(1), imagePath(2)} }

(***************************************************************************)
(* update() in two tabs over one store.  A tab runs its script to the end, *)
(* but between the load() and the save() of its update() the other tab may *)
(* read and write the store.  The record of a tab: its position, updates   *)
(* and current, what the two halves did, and for the properties the record *)
(* its save() wrote, the place of that save() among the two, and whether   *)
(* the other tab had saved when this one loaded.                           *)
(***************************************************************************)
Tabs == {"tab1", "tab2"}

OtherTab(t) == CHOOSE o \in Tabs : o # t

NoTab ==
    [pc |-> "idle", updates |-> EmptyObj, current |-> EmptyObj,
     threwAt |-> {}, bool |-> FALSE, wrote |-> NullItem, nth |-> 0,
     afterOtherSave |-> FALSE]

NoTabs == [t \in Tabs |-> NoTab]

\* const current = this.load()
updateLoad(ls, dflt, flt) == load(ls, dflt, flt)

\* return this.save({ ...current, ...updates })
updateSaveRereads(ls, dflt, current, updates, flt) ==
    save(ls, dflt, Merge(load(ls, dflt, {}).obj, updates), flt)
updateSave(ls, dflt, current, updates, flt) ==
    save(ls, dflt, Merge(current, updates), flt)

(***************************************************************************)
(* The state machine                                                       *)
(***************************************************************************)
Returned(op, arg, r) ==
    [op |-> op, arg |-> arg, obj |-> r.obj, bool |-> r.bool, exc |-> r.exc,
     threwAt |-> r.threwAt, wrote |-> r.wrote, path |-> r.path,
     dropped |-> r.dropped, ref |-> r.ref]

NoCall ==
    [op |-> "none", arg |-> EmptyObj, obj |-> EmptyObj, bool |-> FALSE,
     exc |-> FALSE, threwAt |-> {}, wrote |-> {}, path |-> "none",
     dropped |-> {}, ref |-> "none"]

\* the call before the one now made, remembered where a property looks back:
\* before a load(), and a load() before an update()
Before(op) ==
    IF op = "load" \/ (op = "update" /\ ret.op = "load") THEN ret ELSE NoCall

Init ==
    /\ localStorage \in
         { Store(b, v) : b \in InitialBlobs, v \in InitialVersions }
         \cup { Store(b, Text(configVersion)) : b \in CurrentBlobs }
    /\ defaultConfig = getDefaultConfig
    /\ ret = NoCall
    /\ prev = NoCall
    /\ now = 0
    /\ images = {}
    /\ pfp = NoResolution
    /\ settled = NoProbe
    /\ admin = NoAdmin
    /\ page = NoPage
    /\ tabs = NoTabs

Load ==
    \E flt \in FaultSets(LoadSites) :
        LET r == load(localStorage, defaultConfig, flt)
        IN /\ localStorage' = r.ls
           /\ ret' = Returned("load", EmptyObj, r)
           /\ prev' = Before("load")
           /\ UNCHANGED defaultConfig
           /\ UNCHANGED pfpVars
           /\ UNCHANGED pageVars

Save ==
    \E P \in PartialConfigs, flt \in FaultSets(SaveSites) :
        LET r == save(localStorage, defaultConfig, P, flt)
        IN /\ localStorage' = r.ls
           /\ ret' = Returned("save", P, r)
           /\ prev' = Before("save")
           /\ UNCHANGED defaultConfig
           /\ UNCHANGED pfpVars
           /\ UNCHANGED pageVars

Update ==
    \E U \in PartialConfigs, flt \in FaultSets(LoadSites) :
        LET r == update(localStorage, defaultConfig, U, flt)
        IN /\ localStorage' = r.ls
           /\ ret' = Returned("update", U, r)
           /\ prev' = Before("update")
           /\ UNCHANGED defaultConfig
           /\ UNCHANGED pfpVars
           /\ UNCHANGED pageVars

Reset ==
    \E flt \in FaultSets(ResetSites) :
        LET r == reset(localStorage, defaultConfig, flt)
        IN /\ localStorage' = r.ls
           /\ ret' = Returned("reset", EmptyObj, r)
           /\ prev' = Before("reset")
           /\ UNCHANGED defaultConfig
           /\ UNCHANGED pfpVars
           /\ UNCHANGED pageVars

ForceRefresh ==
    \E flt \in FaultSets(RefreshSites) :
        LET r == forceRefresh(localStorage, defaultConfig, flt)
        IN /\ localStorage' = r.ls
           /\ ret' = Returned("forceRefresh", EmptyObj, r)
           /\ prev' = Before("forceRefresh")
           /\ UNCHANGED defaultConfig
           /\ UNCHANGED pfpVars
           /\ UNCHANGED pageVars

\* the caller assigns to a field of the object load() handed out
MutateReturned ==
    /\ ret.op \in {"load", "forceRefresh"}
    /\ LET mutated == [ret.obj EXCEPT !["theme"] = "mutated"]
       IN /\ ret' = [ret EXCEPT !.op = "mutate", !.obj = mutated]
          /\ defaultConfig' = IF ret.ref = "defaultConfig"
                              THEN [defaultConfig EXCEPT !["theme"] = "mutated"]
                              ELSE defaultConfig
    /\ prev' = Before("mutate")
    /\ UNCHANGED localStorage
    /\ UNCHANGED pfpVars
    /\ UNCHANGED pageVars

Next ==
    \/ Load
    \/ Save
    \/ Update
    \/ Reset
    \/ ForceRefresh
    \/ MutateReturned

Spec == Init /\ [][Next]_vars

(***************************************************************************)
(* The state machine of the prober                                         *)
(***************************************************************************)
InitPfp ==
    /\ \E c \in InitialCaches :
          localStorage = [Store(NullItem, NullItem) EXCEPT
                            ![cacheKey] = c[1], ![cacheTimeKey] = c[2]]
    /\ defaultConfig = getDefaultConfig
    /\ ret = NoCall
    /\ prev = NoCall
    /\ now = 0
    /\ images = {}
    /\ pfp = NoResolution
    /\ settled = NoProbe
    /\ admin = NoAdmin
    /\ page = NoPage
    /\ tabs = NoTabs

\* configManager.findLatestPfpImage() is called
FindLatestPfpImage ==
    /\ pfp.pc = "idle"
    /\ pfp.calls < MaxCalls
    /\ \E flt \in FaultSets(EnterSites) :
          pfp' = Enter(pfp, localStorage, now, images, flt)
    /\ settled' = NoProbe
    /\ UNCHANGED <<localStorage, now, images>>
    /\ UNCHANGED cfgVars
    /\ UNCHANGED pageVars

Awaiting == pfp.pc \in {"revalidate", "scan"}

\* the load event of the Image of the awaited probe
OnLoad ==
    /\ Awaiting
    /\ pfp.probe.path \in images \cup {fallback}
    /\ \E flt \in FaultSets(ResumeSites) :
          LET r == Resume([pfp EXCEPT !.probe = onload(@)],
                          localStorage, now, flt)
          IN /\ pfp' = r.pfp
             /\ localStorage' = r.ls
    /\ settled' = onload(pfp.probe)
    /\ UNCHANGED <<now, images>>
    /\ UNCHANGED cfgVars
    /\ UNCHANGED pageVars

\* its error event: the server does not hold the path, or the network fails
OnError ==
    /\ Awaiting
    /\ \E flt \in FaultSets(ResumeSites) :
          LET r == Resume([pfp EXCEPT !.probe = onerror(@)],
                          localStorage, now, flt)
          IN /\ pfp' = r.pfp
             /\ localStorage' = r.ls
    /\ settled' = onerror(pfp.probe)
    /\ UNCHANGED <<now, images>>
    /\ UNCHANGED cfgVars
    /\ UNCHANGED pageVars

\* its timer fires
OnTimeout ==
    /\ Awaiting
    /\ pfp.probe.timer = "armed"
    /\ \E flt \in FaultSets(ResumeSites) :
          LET r == Resume([pfp EXCEPT !.probe = ontimeout(@)],
                          localStorage, now, flt)
          IN /\ pfp' = r.pfp
             /\ localStorage' = r.ls
    /\ settled' = ontimeout(pfp.probe)
    /\ UNCHANGED <<now, images>>
    /\ UNCHANGED cfgVars
    /\ UNCHANGED pageVars

\* the Image of a probe that its timer settled loads or fails after all
LateLoad ==
    /\ settled.img = "loading"
    /\ settled.path \in images \cup {fallback}
    /\ settled' = onload(settled)
    /\ UNCHANGED <<localStorage, now, images, pfp>>
    /\ UNCHANGED cfgVars
    /\ UNCHANGED pageVars

LateError ==
    /\ settled.img = "loading"
    /\ settled' = onerror(settled)
    /\ UNCHANGED <<localStorage, now, images, pfp>>
    /\ UNCHANGED cfgVars
    /\ UNCHANGED pageVars

\* time passes
\* the page is still to call findLatestPfpImage() or awaits it
Watched == pfp.pc # "idle" \/ pfp.calls < MaxCalls

Tick ==
    /\ Watched
    /\ \E t \in Clock : t > now /\ now' = t
    /\ settled' = NoProbe
    /\ UNCHANGED <<localStorage, images, pfp>>
    /\ UNCHANGED cfgVars
    /\ UNCHANGED pageVars

\* between two calls an image is uploaded to the server or deleted from it
Publish ==
    /\ pfp.pc = "idle" /\ Watched
    /\ \E p \in Uploads \ images : images' = images \cup {p}
    /\ settled' = NoProbe
    /\ UNCHANGED <<localStorage, now, pfp>>
    /\ UNCHANGED cfgVars
    /\ UNCHANGED pageVars

Unpublish ==
    /\ pfp.pc = "idle" /\ Watched
    /\ \E p \in images : images' = images \ {p}
    /\ settled' = NoProbe
    /\ UNCHANGED <<localStorage, now, pfp>>
    /\ UNCHANGED cfgVars
    /\ UNCHANGED pageVars

NextPfp ==
    \/ FindLatestPfpImage
    \/ OnLoad
    \/ OnError
    \/ OnTimeout
    \/ LateLoad
    \/ LateError
    \/ Tick
    \/ Publish
    \/ Unpublish

SpecPfp == InitPfp /\ [][NextPfp]_vars

\* an armed timer fires: the event loop runs the callback of setTimeout
SpecPfpFair == SpecPfp /\ WF_vars(OnTimeout)

(***************************************************************************)
(* The state machine of the admin page and the console: the constructor of *)
(* AdminController with its load(), its saveConfig(), and reset() called   *)
(* on the ConfigManager, over a store that may hold the cache of a page    *)
(* view                                                                    *)
(***************************************************************************)
InitSite ==
    /\ \E b \in SiteBlobs, v \in {Text("1.0"), Text(configVersion)},
          c \in CacheLeft :
          localStorage = [Store(b, v) EXCEPT ![cacheKey] = c[1],
                                             ![cacheTimeKey] = c[2]]
    /\ defaultConfig = getDefaultConfig
    /\ ret = NoCall
    /\ prev = NoCall
    /\ now = 0
    /\ images = {}
    /\ pfp = NoResolution
    /\ settled = NoProbe
    /\ admin = NoAdmin
    /\ page = NoPage
    /\ tabs = NoTabs

\* new AdminController(): this.config = configManager.load()
OpenAdmin ==
    /\ admin.op = "none"
    /\ \E flt \in FaultSets(LoadSites) :
          LET r == load(localStorage, defaultConfig, flt)
          IN /\ localStorage' = r.ls
             /\ ret' = Returned("load", EmptyObj, r)
             /\ admin' = [NoAdmin EXCEPT !.op = "constructor", !.config = r.obj]
    /\ prev' = Before("load")
    /\ UNCHANGED defaultConfig
    /\ UNCHANGED pfpVars
    /\ UNCHANGED <<page, tabs>>

\* the form is submitted.  ret is the call of configManager.save() the
\* handler made, NoCall when it made none
SaveConfig ==
    /\ admin.op # "none"
    /\ \E form \in Forms, flt \in FaultSets(SaveSites) :
          LET a == saveConfig(localStorage, defaultConfig, admin.config,
                              form, flt)
          IN /\ localStorage' = a.ls
             /\ ret' = IF a.saved
                       THEN Returned("save", FormData(form), a.call)
                       ELSE NoCall
             /\ admin' = [op |-> "saveConfig", config |-> a.config,
                          form |-> form, shown |-> a.shown, saved |-> a.saved]
    /\ prev' = Before("save")
    /\ UNCHANGED defaultConfig
    /\ UNCHANGED pfpVars
    /\ UNCHANGED <<page, tabs>>

NextSite ==
    \/ OpenAdmin
    \/ SaveConfig
    \/ Reset

SpecSite == InitSite /\ [][NextSite]_vars

(***************************************************************************)
(* The state machine of the main page: the run of init() the constructor   *)
(* starts, a refreshAll(), the events of the probes they await, and the    *)
(* admin page of another tab saving a profile image URL.  Storage and the  *)
(* constructor of Image work.                                              *)
(***************************************************************************)
InitPage ==
    /\ localStorage \in
         { Store(NullItem, NullItem) }
         \cup { Store(JSONstringify(Merge(getDefaultConfig,
                                          [profileImageUrl |-> u])),
                      Text(configVersion)) : u \in ProfileImageUrls }
    /\ defaultConfig = getDefaultConfig
    /\ ret = NoCall
    /\ prev = NoCall
    /\ now = 0
    /\ images \in Served
    /\ pfp = NoResolution
    /\ settled = NoProbe
    /\ admin = NoAdmin
    /\ page = NoPage
    /\ tabs = NoTabs

\* a run of init() begins and goes on to its await or to its end: the
\* constructor followed by init(), or refreshAll() followed by init(), load
\* this.config twice
Begin(r) ==
    \E first \in {load(localStorage, defaultConfig, {})} :
    \E second \in {load(first.ls, defaultConfig, {})} :
        /\ page' = init(page, r, second.obj, second.ls, now, images)
        /\ localStorage' = second.ls
        /\ ret' = Returned("load", EmptyObj, second)
        /\ prev' = Returned("load", EmptyObj, first)
        /\ UNCHANGED defaultConfig
        /\ UNCHANGED pfpVars
        /\ UNCHANGED <<admin, tabs>>

\* new MainPageController()
Construct ==
    /\ page.runs["constructor"].pc = "none"
    /\ Begin("constructor")

\* refreshAll() is called on the controller
RefreshAll ==
    /\ page.runs["constructor"].pc # "none"
    /\ page.runs["refreshAll"].pc = "none"
    /\ Begin("refreshAll")

Settled(r, probe) ==
    \E res \in {Resume([page.runs[r].call EXCEPT !.probe = probe],
                       localStorage, now, {})} :
        /\ page' = Settle(page, r, res.pfp)
        /\ localStorage' = res.ls
        /\ UNCHANGED cfgVars
        /\ UNCHANGED pfpVars
        /\ UNCHANGED <<admin, tabs>>

\* the load event, the error event and the timer of the probe a run awaits
PageOnLoad ==
    \E r \in Runs :
        /\ page.runs[r].pc = "awaiting"
        /\ page.runs[r].call.probe.path \in images \cup {fallback}
        /\ Settled(r, onload(page.runs[r].call.probe))

PageOnError ==
    \E r \in Runs :
        /\ page.runs[r].pc = "awaiting"
        /\ Settled(r, onerror(page.runs[r].call.probe))

PageOnTimeout ==
    \E r \in Runs :
        /\ page.runs[r].pc = "awaiting"
        /\ Settled(r, ontimeout(page.runs[r].call.probe))

\* the admin page, in another tab, saves a form with this profile image URL
SaveProfileImage ==
    /\ \E u \in ProfileImageUrls :
          LET r == save(localStorage, defaultConfig, [profileImageUrl |-> u], {})
          IN /\ localStorage' = r.ls
             /\ ret' = Returned("save", [profileImageUrl |-> u], r)
    /\ prev' = Before("save")
    /\ UNCHANGED defaultConfig
    /\ UNCHANGED pfpVars
    /\ UNCHANGED pageVars

NextPage ==
    \/ Construct
    \/ RefreshAll
    \/ PageOnLoad
    \/ PageOnError
    \/ PageOnTimeout
    \/ SaveProfileImage

SpecPage == InitPage /\ [][NextPage]_vars

(***************************************************************************)
(* The state machine of two tabs that each call update() once              *)
(***************************************************************************)
InitTabs ==
    /\ localStorage \in
         { Store(b, v) : b \in InitialBlobs, v \in InitialVersions }
         \cup { Store(b, Text(configVersion)) : b \in CurrentBlobs }
    /\ defaultConfig = getDefaultConfig
    /\ ret = NoCall
    /\ prev = NoCall
    /\ now = 0
    /\ images = {}
    /\ pfp = NoResolution
    /\ settled = NoProbe
    /\ admin = NoAdmin
    /\ page = NoPage
    /\ tabs = NoTabs

\* a tab calls update(U): the first half, up to the return of load()
UpdateLoads ==
    /\ \E t \in Tabs, U \in PartialConfigs, flt \in FaultSets(LoadSites) :
          /\ tabs[t].pc = "idle"
          /\ LET current == updateLoad(localStorage, defaultConfig, flt)
             IN /\ localStorage' = current.ls
                /\ tabs' = [tabs EXCEPT ![t] =
                              [NoTab EXCEPT
                                 !.pc = "loaded", !.updates = U,
                                 !.current = current.obj,
                                 !.threwAt = current.threwAt,
                                 !.afterOtherSave =
                                     tabs[OtherTab(t)].pc = "done"]]
    /\ UNCHANGED cfgVars
    /\ UNCHANGED pfpVars
    /\ UNCHANGED <<admin, page>>

\* the second half: save() and the return of update()
UpdateSaves ==
    /\ \E t \in Tabs, flt \in FaultSets(SaveSites) :
          /\ tabs[t].pc = "loaded"
          /\ LET s == updateSave(localStorage, defaultConfig, tabs[t].current,
                                 tabs[t].updates, flt)
             IN /\ localStorage' = s.ls
                /\ tabs' = [tabs EXCEPT ![t] =
                              [@ EXCEPT
                                 !.pc = "done", !.bool = s.bool,
                                 !.threwAt = @ \cup s.threwAt,
                                 !.wrote = IF storageKey \in s.wrote
                                           THEN s.ls[storageKey] ELSE NullItem,
                                 !.nth = IF tabs[OtherTab(t)].pc = "done"
                                         THEN 2 ELSE 1]]
    /\ UNCHANGED cfgVars
    /\ UNCHANGED pfpVars
    /\ UNCHANGED <<admin, page>>

NextTabs ==
    \/ UpdateLoads
    \/ UpdateSaves

SpecTabs == InitTabs /\ [][NextTabs]_vars

(***************************************************************************)
(* Vocabulary of the properties                                            *)
(***************************************************************************)
DefaultKeys == DOMAIN getDefaultConfig

\* no storage call of the operation threw
Ok(c) == c.threwAt = {}

\* the fields that have a legacy rewrite rule; a rule turns the field's
\* former default (as in LegacyBlob) into its present default
RewriteFields ==
    {"location", "heroName", "businessName", "contactEmail", "profileImageUrl"}

Healed(k, v) ==
    IF k \in RewriteFields /\ v = LegacyBlob[k] THEN getDefaultConfig[k] ELSE v

\* a partial config in the sense of the data model: schema keys, no undefined
ValidPartial(P) ==
    /\ DOMAIN P \subseteq DefaultKeys
    /\ \A k \in DOMAIN P : P[k] # Undefined

\* what load() is to return for schema key k after save(P)
AfterSave(P, k) ==
    IF k \in DOMAIN P /\ P[k] # Undefined THEN Healed(k, P[k])
    ELSE getDefaultConfig[k]

SavedThenLoaded ==
    /\ prev.op = "save" /\ prev.bool
    /\ ret.op = "load" /\ Ok(ret)

(***************************************************************************)
(* C1 as stated: after save(P) returned true, load() returns every Default *)
(* Schema key, each key of P with P's value and every other key with its   *)
(* default.  P ranges over the valid partial configs.                      *)
(***************************************************************************)
C1_RoundTripAsStated ==
    (SavedThenLoaded /\ ValidPartial(prev.arg)) =>
        /\ DefaultKeys \subseteq DOMAIN ret.obj
        /\ \A k \in DOMAIN prev.arg : ret.obj[k] = prev.arg[k]
        /\ \A k \in DefaultKeys \ DOMAIN prev.arg :
              ret.obj[k] = getDefaultConfig[k]

(***************************************************************************)
(* C1 amended: after save(P) returned true, a load() whose storage calls   *)
(* succeed returns every Default Schema key; a schema key of P has P's     *)
(* value, except that the old literal of a legacy rewrite rule comes back  *)
(* as the rule's new literal; a key absent from P, or undefined in P, has  *)
(* its default value.                                                      *)
(***************************************************************************)
C1_RoundTrip ==
    SavedThenLoaded =>
        /\ DefaultKeys \subseteq DOMAIN ret.obj
        /\ \A k \in DefaultKeys : ret.obj[k] = AfterSave(prev.arg, k)

C1_Witness ==
    /\ SavedThenLoaded
    /\ prev.arg = [heroTagline |-> "Compassionate care", heroName |-> "Dr. Custom"]
    /\ ret.path = "migrate"
    /\ ret.obj["heroName"] = "Dr. Custom"
    /\ ret.obj["theme"] = "default"

(***************************************************************************)
(* C2: whatever the store holds and whichever storage calls fail, the      *)
(* object load() returns (forceRefresh() returns load()'s) has every key   *)
(* of the Default Schema.                                                  *)
(***************************************************************************)
C2_AllDefaultKeys ==
    ret.op \in {"load", "forceRefresh"} => DefaultKeys \subseteq DOMAIN ret.obj

C2_Witness ==
    /\ ret.op = "load"
    /\ ret.path = "migrate"
    /\ ret.threwAt = {"setItem(config)"}
    /\ localStorage[storageKey] = Json([theme |-> "winter", foo |-> "bar"])
    /\ DefaultKeys \subseteq DOMAIN ret.obj

(***************************************************************************)
(* C3: a load() that finds a version token other than the current one and  *)
(* a blob with unrecognized and recognized keys.                           *)
(***************************************************************************)
\* the step is such a load(), and its storage calls succeed
MigratingLoad ==
    /\ ret'.op = "load" /\ Ok(ret')
    /\ localStorage[versionKey] # Text(configVersion)
    /\ localStorage[storageKey].kind = "json"
    /\ DOMAIN localStorage[storageKey].obj \ DefaultKeys # {}
    /\ DOMAIN localStorage[storageKey].obj \cap DefaultKeys # {}

\* the step is a load() right after such a load()
LoadAfterMigration ==
    /\ ret.op = "load" /\ Ok(ret) /\ ret.path = "migrate" /\ ret.dropped # {}
    /\ ret'.op = "load" /\ Ok(ret')

MigrationPersisted ==
    /\ DOMAIN ret'.obj \subseteq DefaultKeys
    /\ localStorage'[storageKey] = Json(ret'.obj)
    /\ localStorage'[versionKey] = Text(configVersion)

SecondLoadChangesNothing ==
    /\ ret'.obj = ret.obj
    /\ ret'.wrote = {}
    /\ localStorage' = localStorage

\* C3 as stated: the unrecognized keys are gone, every recognized key keeps
\* its stored value, the store holds the reconciled blob and the current
\* token, and the next load() returns the same and writes nothing.
C3_MigrationAsStated ==
    [][ /\ MigratingLoad =>
            /\ MigrationPersisted
            /\ \A k \in DOMAIN localStorage[storageKey].obj \cap DefaultKeys :
                  ret'.obj[k] = localStorage[storageKey].obj[k]
        /\ LoadAfterMigration => SecondLoadChangesNothing ]_vars

\* C3 amended: as stated, except that a recognized key whose stored value is
\* the old literal of a legacy rewrite rule comes back, and is stored, as the
\* rule's new literal.
C3_Migration ==
    [][ /\ MigratingLoad =>
            /\ MigrationPersisted
            /\ \A k \in DOMAIN localStorage[storageKey].obj \cap DefaultKeys :
                  ret'.obj[k] = Healed(k, localStorage[storageKey].obj[k])
        /\ LoadAfterMigration => SecondLoadChangesNothing ]_vars

C3_Witness ==
    /\ prev.op = "load" /\ Ok(prev) /\ prev.path = "migrate"
    /\ prev.dropped = {"foo"}
    /\ prev.obj["theme"] = "winter"
    /\ ret.op = "load" /\ Ok(ret) /\ ret.path = "plain"
    /\ ret.obj = prev.obj
    /\ ret.wrote = {}
    /\ localStorage[storageKey] = Json(ret.obj)
    /\ localStorage[versionKey] = Text(configVersion)

(***************************************************************************)
(* C4: during a load() that finds a mismatched version token and a blob,   *)
(* the token becomes the current version only if the reconciled blob was   *)
(* written.                                                                *)
(***************************************************************************)
C4_TokenOnlyAfterBlob ==
    [][ ( /\ ret'.op = "load"
          /\ localStorage[versionKey] # Text(configVersion)
          /\ Truthy(localStorage[storageKey])
          /\ localStorage'[versionKey] = Text(configVersion) )
        => storageKey \in ret'.wrote ]_vars

(***************************************************************************)
(* C5: load() never returns a key that is not in the Default Schema.       *)
(***************************************************************************)
C5_ClosedKeySet ==
    ret.op = "load" => DOMAIN ret.obj \subseteq DefaultKeys

(***************************************************************************)
(* C6: two load() calls in succession, the storage calls of both           *)
(* succeeding.                                                             *)
(***************************************************************************)
LoadedTwice ==
    /\ prev.op = "load" /\ Ok(prev)
    /\ ret.op = "load" /\ Ok(ret)

\* C6 as stated: the second call returns an equal object and writes no
\* store record.
C6_IdempotentAsStated ==
    LoadedTwice => (ret.obj = prev.obj /\ ret.wrote = {})

\* C6 amended: the second load() returns an equal object and leaves every
\* store record as it was; it makes no write when a config blob is stored,
\* and with no blob stored its only write puts the current version token
\* where it already stands.
C6_Idempotent ==
    [][ ( /\ ret.op = "load" /\ Ok(ret)
          /\ ret'.op = "load" /\ Ok(ret') )
        => /\ ret'.obj = ret.obj
           /\ localStorage' = localStorage
           /\ IF Truthy(localStorage[storageKey])
              THEN ret'.wrote = {}
              ELSE ret'.wrote = {versionKey} ]_vars

C6_Witness ==
    /\ LoadedTwice
    /\ prev.path = "rewrite" /\ prev.wrote = {storageKey, versionKey}
    /\ ret.path = "plain" /\ ret.wrote = {}
    /\ ret.obj = prev.obj

(***************************************************************************)
(* C7: a load() whose storage calls succeed, on a blob that holds the old  *)
(* literal of a rewrite rule in the rule's field, returns the new literal  *)
(* in that field and leaves the new literal in the stored config record;   *)
(* the version token may match or not, and the old literal may have been   *)
(* saved on purpose.                                                       *)
(***************************************************************************)
C7_LegacyRewrite ==
    [][ ( /\ ret'.op = "load" /\ Ok(ret')
          /\ localStorage[storageKey].kind = "json" )
        => \A f \in RewriteFields :
              ( /\ f \in DOMAIN localStorage[storageKey].obj
                /\ localStorage[storageKey].obj[f] = LegacyBlob[f] )
              => /\ ret'.obj[f] = getDefaultConfig[f]
                 /\ localStorage'[storageKey].kind = "json"
                 /\ localStorage'[storageKey].obj[f] = getDefaultConfig[f]
      ]_vars

\* the version token matched and the user had saved the old literal
C7_Witness ==
    /\ prev.op = "save" /\ prev.bool
    /\ prev.arg = [heroName |-> "Jane Doe, FNP"]
    /\ ret.op = "load" /\ Ok(ret) /\ ret.path = "rewrite"
    /\ ret.obj["heroName"] = "Rujita Munankarmi, FNP"
    /\ localStorage[storageKey].obj["heroName"] = "Rujita Munankarmi, FNP"

(***************************************************************************)
(* C8: reset() that returned true, then load() with working storage: the   *)
(* object returned equals the Default Schema, whatever was stored before   *)
(* and whatever the callers did to the objects earlier load() calls gave   *)
(* them.                                                                   *)
(***************************************************************************)
C8_ResetThenLoad ==
    ( /\ prev.op = "reset" /\ prev.bool
      /\ ret.op = "load" /\ Ok(ret) )
    => ret.obj = getDefaultConfig

C8_Witness ==
    /\ prev.op = "reset" /\ prev.bool
    /\ ret.op = "load" /\ Ok(ret) /\ ret.path = "noblob"
    /\ ret.obj = getDefaultConfig
    /\ ret.ref = "copy"
    /\ localStorage[storageKey] = NullItem

(***************************************************************************)
(* C9: load(), then update(U) that returned true, then load(), the storage *)
(* calls of all three succeeding.                                          *)
(***************************************************************************)
UpdateBetweenLoads ==
    /\ prev.op = "load" /\ Ok(prev)
    /\ ret.op = "update" /\ ret.bool /\ Ok(ret)
    /\ ret'.op = "load" /\ Ok(ret')

\* C9 as stated: the last load() returns U's value for every key of U and,
\* for every other key, what the first load() returned.  U ranges over the
\* valid partial configs.
C9_UpdateAsStated ==
    [][ (UpdateBetweenLoads /\ ValidPartial(ret.arg)) =>
          /\ \A k \in DOMAIN ret.arg :
                k \in DOMAIN ret'.obj /\ ret'.obj[k] = ret.arg[k]
          /\ \A k \in DOMAIN prev.obj \ DOMAIN ret.arg :
                k \in DOMAIN ret'.obj /\ ret'.obj[k] = prev.obj[k] ]_vars

\* C9 amended: the last load() returns U's value for every Default Schema
\* key of U, except that the old literal of a legacy rewrite rule comes back
\* as the rule's new literal and a key undefined in U comes back as its
\* default; a key of U outside the schema comes back with U's value when the
\* version token is current at that load() and is dropped otherwise; every
\* other key has the value the first load() returned.
C9_Update ==
    [][ UpdateBetweenLoads =>
          /\ \A k \in DOMAIN ret.arg \cap DefaultKeys :
                ret'.obj[k] = AfterSave(ret.arg, k)
          /\ \A k \in DOMAIN ret.arg \ DefaultKeys :
                IF localStorage[versionKey] = Text(configVersion)
                   /\ ret.arg[k] # Undefined
                THEN k \in DOMAIN ret'.obj /\ ret'.obj[k] = ret.arg[k]
                ELSE k \notin DOMAIN ret'.obj
          /\ \A k \in DOMAIN prev.obj \ DOMAIN ret.arg :
                k \in DOMAIN ret'.obj /\ ret'.obj[k] = prev.obj[k] ]_vars

\* a field stored before the update is still there after it
C9_Witness ==
    /\ prev.op = "update" /\ prev.bool /\ Ok(prev)
    /\ prev.arg = [theme |-> "winter"]
    /\ ret.op = "load" /\ Ok(ret)
    /\ ret.obj["theme"] = "winter"
    /\ ret.obj["heroName"] = "Dr. Custom"
    /\ "heroTagline" \in DOMAIN ret.obj

(***************************************************************************)
(* C10: no public operation lets an exception out.                         *)
(***************************************************************************)
Unparseable(item) == Truthy(item) /\ JSONparse(item).exc

FalseOnFailure ==
    (ret.op \in {"save", "reset"} /\ ~Ok(ret)) => ~ret.bool

C11_ParseFailureAsNoBlob ==
    ( /\ ret.op = "load" /\ Ok(ret)
      /\ Unparseable(localStorage[storageKey]) )
    => /\ ret.obj = getDefaultConfig
       /\ localStorage[versionKey] = Text(configVersion)

(***************************************************************************)
(* C12: save(config) returns true exactly when it wrote the config record, *)
(* and the record then holds the config merged over the defaults; when the *)
(* write fails it returns false, throws nothing and the config record is   *)
(* the one from before the call.                                           *)
(***************************************************************************)
C12_SaveBoolean ==
    [][ ret'.op = "save"
        => /\ ~ret'.exc
           /\ ret'.bool <=> storageKey \in ret'.wrote
           /\ ret'.bool <=> Ok(ret')
           /\ ret'.bool
                 => localStorage'[storageKey]
                      = JSONstringify(Merge(defaultConfig, ret'.arg))
           /\ ~ret'.bool
                 => localStorage'[storageKey] = localStorage[storageKey]
      ]_vars

\* a failed save of a theme over a stored record with another theme
C12_Witness ==
    /\ ret.op = "save" /\ ~ret.bool /\ ~ret.exc
    /\ ret.threwAt = {"setItem(config)"}
    /\ ret.arg = [theme |-> "winter"]
    /\ localStorage[storageKey].kind = "json"
    /\ "theme" \in DOMAIN localStorage[storageKey].obj
    /\ localStorage[storageKey].obj["theme"] # "winter"

(***************************************************************************)
(* C13: load() with working storage on a store that has no config record   *)
(* returns a copy of the defaults, leaves the version token at the current *)
(* version and creates no config record.                                   *)
(***************************************************************************)
C13_FirstRun ==
    [][ ( /\ ret'.op = "load" /\ Ok(ret')
          /\ localStorage[storageKey] = NullItem )
        => /\ ret'.obj = getDefaultConfig
           /\ ret'.ref = "copy"
           /\ localStorage'[versionKey] = Text(configVersion)
           /\ localStorage'[storageKey] = NullItem
      ]_vars

\* the first load() of a browser that never held a record
C13_Witness ==
    /\ prev = NoCall
    /\ ret.op = "load" /\ Ok(ret) /\ ret.path = "noblob"
    /\ ret.wrote = {versionKey}
    /\ ret.obj = getDefaultConfig
    /\ localStorage = Store(NullItem, Text(configVersion))

(***************************************************************************)
(* Vocabulary of the prober's properties                                   *)
(***************************************************************************)
\* the call has returned or rejected
CallOver == pfp.pc = "idle" /\ pfp.calls > 0

CandidatePaths == {imagePath(n) : n \in 1..maxAttempts}

\* what the server held when the call was made
Held == pfp.atCall.images \cup {fallback}

\* the highest-numbered candidate among imgs, the placeholder if there is none
HighestOrPlaceholder(imgs) ==
    IF imgs \cap CandidatePaths = {} THEN fallback
    ELSE imagePath(CHOOSE n \in 1..maxAttempts :
                      /\ imagePath(n) \in imgs
                      /\ \A m \in (n + 1)..maxAttempts : imagePath(m) \notin imgs)

\* every probe of a path the server held came back true: no load was cut
\* short by a network error or by the timer
Faithful ==
    \A j \in DOMAIN pfp.probed :
        pfp.probed[j].path \in Held => pfp.probed[j].exists

NoneResolved == \A j \in DOMAIN pfp.probed : ~pfp.probed[j].exists

\* the cache entry the call found has a path and a time stamp that reads as
\* a number less than 24 hours before the call
UsableEntry ==
    LET stamp == parseInt(pfp.atCall.cacheTime)
    IN /\ Truthy(pfp.atCall.cache)
       /\ Truthy(pfp.atCall.cacheTime)
       /\ ~stamp.nan
       /\ pfp.atCall.now - stamp.val < cacheDuration

CachedPath == pfp.atCall.cache.text

\* the cache records hold this path and the decimal text of this time
CacheHolds(path, t) ==
    /\ localStorage[cacheKey] = Text(path)
    /\ localStorage[cacheTimeKey] = Chars(NumberToString(t))

CacheAsFound ==
    /\ localStorage[cacheKey] = pfp.atCall.cache
    /\ localStorage[cacheTimeKey] = pfp.atCall.cacheTime

(***************************************************************************)
(* C14: a call with working storage that finds no usable cache entry,      *)
(* while the server holds some of the candidates and every probe of a held *)
(* path loads, returns the path of the highest-numbered candidate held,    *)
(* and the cache records then hold that path and the time of the write.    *)
(***************************************************************************)
C14_ColdCache ==
    ( /\ CallOver /\ Ok(pfp)
      /\ ~UsableEntry
      /\ Faithful
      /\ pfp.atCall.images # {} )
    => /\ ~pfp.rejected
       /\ pfp.result \in CandidatePaths
       /\ pfp.result = HighestOrPlaceholder(pfp.atCall.images)
       /\ pfp.returnedAt >= pfp.atCall.now
       /\ CacheHolds(pfp.result, pfp.returnedAt)

\* the server holds pfp1 and pfp2, the store holds no cache; the call is made
\* at time 0 and finds pfp2 a millisecond before the day is over
C14_Witness ==
    /\ CallOver /\ Ok(pfp)
    /\ pfp.atCall.cache = NullItem
    /\ pfp.atCall.images = {imagePath(1), imagePath(2)}
    /\ pfp.atCall.now = 0
    /\ pfp.result = imagePath(2)
    /\ Len(pfp.probed) = maxAttempts - 1
    /\ CacheHolds(imagePath(2), cacheDuration - 1)

ScannedAll ==
    /\ Len(pfp.probed) \in {maxAttempts, maxAttempts + 1}
    /\ \A n \in 1..maxAttempts :
          pfp.probed[Len(pfp.probed) - n + 1].path = imagePath(n)

C16_Placeholder ==
    (CallOver /\ Ok(pfp) /\ NoneResolved)
    => /\ ~pfp.rejected
       /\ pfp.result = fallback
       /\ ScannedAll
       /\ CacheHolds(fallback, pfp.returnedAt)

\* the server holds pfp1, the probe of it runs into the timer
C16_Witness ==
    /\ CallOver /\ Ok(pfp) /\ NoneResolved
    /\ pfp.atCall.images = {imagePath(1)}
    /\ Len(pfp.probed) = maxAttempts
    /\ pfp.result = fallback
    /\ settled.timer = "fired"
    /\ localStorage[cacheKey] = Text(fallback)

(***************************************************************************)
(* C17 as stated: a call with working storage made less than 24 hours      *)
(* after the call before it wrote the cache returns the cached path after  *)
(* one probe, that of the cached path.                                     *)
(***************************************************************************)
C17_SecondCallAsStated ==
    (CallOver /\ Ok(pfp) /\ pfp.atCall.afterCaching /\ UsableEntry)
    => /\ pfp.result = CachedPath
       /\ pfp.probed = <<[path |-> CachedPath, exists |-> TRUE]>>

(***************************************************************************)
(* C17 amended: a call with working storage that finds a cache entry less  *)
(* than 24 hours old probes the cached path first; when that probe loads,  *)
(* the call returns the cached path after this one probe and leaves the    *)
(* cache records as they were; when it does not, the call goes on to scan  *)
(* the candidates from pfp20 down.                                         *)
(***************************************************************************)
C17_SecondCall ==
    (CallOver /\ Ok(pfp) /\ UsableEntry)
    => /\ Len(pfp.probed) >= 1
       /\ pfp.probed[1].path = CachedPath
       /\ pfp.probed[1].exists
             => /\ pfp.result = CachedPath
                /\ Len(pfp.probed) = 1
                /\ CacheAsFound
       /\ ~pfp.probed[1].exists
             => /\ Len(pfp.probed) > 1
                /\ pfp.probed[2].path = imagePath(maxAttempts)

\* the first call cached the placeholder, the second returns it after one probe
C17_Witness ==
    /\ CallOver /\ Ok(pfp)
    /\ pfp.calls = 2
    /\ pfp.atCall.afterCaching
    /\ UsableEntry
    /\ CachedPath = fallback
    /\ pfp.atCall.cacheTime = Chars(NumberToString(cacheDuration - 1))
    /\ pfp.atCall.now = cacheDuration
    /\ pfp.result = fallback
    /\ Len(pfp.probed) = 1

(***************************************************************************)
(* C18: the probe of the cached path is awaited, and the cached path is    *)
(* returned on the fast path, only in a call that found a cache entry with *)
(* a time stamp that reads as a number less than 24 hours before the call; *)
(* on the fast path the one probe of the call is that of the cached path   *)
(* and it loaded.  (parseInt reads the leading digits of the stamp: a      *)
(* stamp is unparseable when it starts with none.)                         *)
(***************************************************************************)
C18_NeverBlind ==
    /\ pfp.pc = "revalidate" => UsableEntry
    /\ (CallOver /\ pfp.via = "fast")
          => /\ UsableEntry
             /\ pfp.result = CachedPath
             /\ pfp.probed = <<[path |-> CachedPath, exists |-> TRUE]>>

\* the entry is one millisecond short of 24 hours old
C18_Witness ==
    /\ CallOver /\ pfp.via = "fast"
    /\ pfp.atCall.cacheTime = Chars(NumberToString(0))
    /\ pfp.atCall.now = cacheDuration - 1
    /\ pfp.result = imagePath(1)

(***************************************************************************)
(* C19: the promise of findLatestPfpImage() is never rejected, whichever   *)
(* cache read, cache write or probe throws; when no probe loaded it        *)
(* fulfils with the placeholder path.                                      *)
(***************************************************************************)
C19_NeverRejects ==
    CallOver => /\ ~pfp.rejected
                /\ NoneResolved => pfp.result = fallback

(***************************************************************************)
(* C20: the promise of a probe is settled once: by the load event to true, *)
(* by the error event or the timer to false, whichever comes first, and a  *)
(* later event of the same Image does not change it; a call settles no     *)
(* more than 21 probes; and a call that awaits a probe comes to its end.   *)
(***************************************************************************)
FirstEventWins ==
    /\ settled.value \in {"none", "true", "false"}
    /\ settled.value = "true"
          <=> (settled.img = "loaded" /\ settled.timer = "cleared")
    /\ settled.timer = "fired" => settled.value = "false"
    /\ (settled.img = "failed" /\ settled.timer = "cleared")
          => settled.value = "false"
    /\ Awaiting => pfp.probe.value = "pending"

SettledOnce ==
    (settled # NoProbe /\ settled' # NoProbe /\ pfp' = pfp)
    => settled'.value = settled.value

C20_NoProbeHangs ==
    /\ [](FirstEventWins /\ Len(pfp.probed) <= maxAttempts + 1)
    /\ [][SettledOnce]_vars
    /\ (Awaiting ~> CallOver)

\* 21 probes, the last settled by the timer before its Image loaded
C20_Witness ==
    /\ CallOver
    /\ Len(pfp.probed) = maxAttempts + 1
    /\ settled.path = imagePath(1)
    /\ settled.timer = "fired"
    /\ settled.img = "loaded"
    /\ settled.value = "false"

(***************************************************************************)
(* C22: the rule set, applied to the config load() builds from the stored  *)
(* record, is idempotent: on a config that holds no old literal it changes *)
(* nothing and does not ask for a save; applied to its own result it       *)
(* changes nothing and does not ask for a save; and no rule's new literal  *)
(* is the old literal of a rule for the same field.                        *)
(***************************************************************************)
RulesOnce(config) == ApplyRulesFrom(1, config, FALSE)

HoldsOldLiteral(config) ==
    \E i \in 1..Len(LegacyRules) :
        /\ LegacyRules[i].field \in DOMAIN config
        /\ config[LegacyRules[i].field] = LegacyRules[i].old

Unchanged(config) == [obj |-> config, needsSave |-> FALSE]

C22_RulesIdempotent ==
    LET stored == localStorage[storageKey]
        merged == IF stored.kind = "json"
                  THEN Merge(defaultConfig, stored.obj)
                  ELSE defaultConfig
        once == RulesOnce(merged)
    IN /\ ~HoldsOldLiteral(merged) => once = Unchanged(merged)
       /\ RulesOnce(once.obj) = Unchanged(once.obj)
       /\ \A i, j \in 1..Len(LegacyRules) :
             LegacyRules[i].field = LegacyRules[j].field
                => LegacyRules[i].new # LegacyRules[j].old

\* a load() rewrote the old business name, the next load() finds the record
\* clean and writes nothing
C22_Witness ==
    /\ prev.op = "load" /\ Ok(prev) /\ prev.path \in {"rewrite", "migrate"}
    /\ ret.op = "load" /\ Ok(ret) /\ ret.path = "plain" /\ ret.wrote = {}
    /\ localStorage[storageKey].kind = "json"
    /\ localStorage[storageKey].obj["businessName"] = "CarenexLLC"
    /\ ~HoldsOldLiteral(localStorage[storageKey].obj)
    /\ ret.obj = prev.obj

(***************************************************************************)
(* C26: after a load() whose storage calls all succeed the version token   *)
(* in the store is the current version, whatever the store held before.    *)
(***************************************************************************)
C26_TokenCurrentAfterLoad ==
    (ret.op = "load" /\ Ok(ret))
    => localStorage[versionKey] = Text(configVersion)

(***************************************************************************)
(* C27: a config record that save(), update() or the auto-save of load()   *)
(* has written holds every key of the Default Schema.                      *)
(***************************************************************************)
C27_RecordComplete ==
    (ret.op \in {"save", "update", "load"} /\ storageKey \in ret.wrote)
    => /\ localStorage[storageKey].kind = "json"
       /\ DefaultKeys \subseteq DOMAIN localStorage[storageKey].obj

(***************************************************************************)
(* C30: forceRefresh() throws nothing and returns a copy of the defaults,  *)
(* whichever storage calls fail; when they all succeed the store is left   *)
(* with no config record and with the current version token.               *)
(***************************************************************************)
C30_ForceRefresh ==
    ret.op = "forceRefresh"
    => /\ ~ret.exc
       /\ ret.obj = getDefaultConfig
       /\ ret.ref = "copy"
       /\ Ok(ret) => /\ localStorage[storageKey] = NullItem
                     /\ localStorage[versionKey] = Text(configVersion)

\* the record is removed, the token written twice
C30_Witness ==
    /\ ret.op = "forceRefresh" /\ Ok(ret)
    /\ ret.wrote = {storageKey, versionKey}
    /\ ret.path = "noblob"
    /\ ret.obj = getDefaultConfig
    /\ localStorage[storageKey] = NullItem
    /\ localStorage[versionKey] = Text(configVersion)


(***************************************************************************)
(* C25: the probes of one call are made one after the other and in order:  *)
(* no promise but that of the probe the call awaits is pending; the probes *)
(* of the scan are those of pfp20, pfp19, ... in this order, none is left  *)
(* out, and no candidate is probed after one whose probe came back true.   *)
(***************************************************************************)
\* the probes of the loop: those settled so far but that of the cached path
ScanProbes ==
    IF pfp.cached # "" /\ pfp.probed # <<>> THEN Tail(pfp.probed)
    ELSE pfp.probed

C25_ProbesInOrder ==
    /\ settled.value # "pending"
    /\ ~Awaiting => pfp.probe.value # "pending"
    /\ Len(ScanProbes) <= maxAttempts
    /\ \A k \in 1..Len(ScanProbes) :
          /\ ScanProbes[k].path = imagePath(maxAttempts - k + 1)
          /\ k < Len(ScanProbes) => ~ScanProbes[k].exists
    /\ pfp.pc = "scan"
          => /\ pfp.probe.path = imagePath(maxAttempts - Len(ScanProbes))
             /\ \A k \in 1..Len(ScanProbes) : ~ScanProbes[k].exists

\* the cached pfp1 is gone from the server; the scan probes pfp20 down to
\* pfp2, which loads, and stops there
C25_Witness ==
    /\ CallOver /\ pfp.via = "scan"
    /\ pfp.cached = imagePath(1)
    /\ ~pfp.probed[1].exists
    /\ Len(ScanProbes) = maxAttempts - 1
    /\ ScanProbes[1] = [path |-> imagePath(maxAttempts), exists |-> FALSE]
    /\ ScanProbes[maxAttempts - 1] = [path |-> imagePath(2), exists |-> TRUE]
    /\ pfp.result = imagePath(2)

(***************************************************************************)
(* C28: a call that returns the cached path on the fast path leaves both   *)
(* cache records as it found them, so an entry is served only while the    *)
(* time of the call is less than 24 hours after the time its stamp tells;  *)
(* a call with working storage that finds an entry 24 hours old or older   *)
(* makes no probe of the cached path, scans from pfp20 down and writes     *)
(* both records anew, the path it returns and the time of the write.       *)
(***************************************************************************)
\* the call found both records, the stamp 24 hours old or older
ExpiredEntry ==
    LET stamp == parseInt(pfp.atCall.cacheTime)
    IN /\ Truthy(pfp.atCall.cache)
       /\ Truthy(pfp.atCall.cacheTime)
       /\ ~stamp.nan
       /\ pfp.atCall.now - stamp.val >= cacheDuration

C28_NoSlidingExpiry ==
    /\ (CallOver /\ pfp.via = "fast")
          => /\ CacheAsFound
             /\ pfp.atCall.now - parseInt(pfp.atCall.cacheTime).val
                   < cacheDuration
    /\ (ExpiredEntry /\ pfp.calls > 0)
          => /\ pfp.pc # "revalidate"
             /\ pfp.cached = ""
             /\ pfp.pc = "scan" \/ pfp.probed # <<>>
                   => (pfp.probed \o <<[path |-> pfp.probe.path]>>)[1].path
                         = imagePath(maxAttempts)
    /\ (CallOver /\ Ok(pfp) /\ ExpiredEntry)
          => /\ pfp.via \in {"scan", "fallback"}
             /\ CacheHolds(pfp.result, pfp.returnedAt)

\* the entry stamped 0 outlives a first call that did not write the cache;
\* the second call, at 24 hours, scans and stamps the entry anew
C28_Witness ==
    /\ CallOver /\ Ok(pfp)
    /\ pfp.calls = 2
    /\ ExpiredEntry
    /\ ~pfp.atCall.afterCaching
    /\ pfp.atCall.cacheTime = Chars(NumberToString(0))
    /\ pfp.atCall.now = cacheDuration
    /\ pfp.via = "scan"
    /\ CacheHolds(imagePath(1), cacheDuration)


(***************************************************************************)
(* C23: a reset() whose storage call goes through returns true and leaves  *)
(* the store without a config record, with the version token and the two   *)
(* cache records as they were; a load() made right after it, with working  *)
(* storage, takes the path of the missing record, not that of migration.   *)
(***************************************************************************)
C23_ResetFrame ==
    [][ /\ (ret'.op = "reset" /\ Ok(ret'))
           => /\ ret'.bool
              /\ localStorage'[storageKey] = NullItem
              /\ \A k \in {versionKey, cacheKey, cacheTimeKey} :
                    localStorage'[k] = localStorage[k]
        /\ (ret.op = "reset" /\ Ok(ret) /\ ret'.op = "load" /\ Ok(ret'))
           => ret'.path = "noblob" ]_vars

\* a store with a config record, the token of version 1.0 and a cached path:
\* after reset() and load() the cache is as it was and the record is gone
C23_Witness ==
    /\ prev.op = "reset" /\ Ok(prev) /\ prev.bool
    /\ ret.op = "load" /\ Ok(ret) /\ ret.path = "noblob"
    /\ admin.op = "constructor"
    /\ localStorage[storageKey] = NullItem
    /\ localStorage[cacheKey] = Text(imagePath(1))
    /\ localStorage[cacheTimeKey] = Chars(NumberToString(0))

(***************************************************************************)
(* C24: saveConfig() on a form whose trimmed display name is empty, whose  *)
(* trimmed contact email is empty or whose trimmed contact email is not of *)
(* the form local@domain.tld shows an error, makes no call of              *)
(* configManager.save() and leaves the store as it was; on any other form  *)
(* it calls save() with the data of the form, and when that save() goes    *)
(* through the config record is those data merged over the defaults.       *)
(***************************************************************************)
\* local@domain.tld: one @, a dot after it, no white space, and a character
\* before the @, between the @ and the dot, and after the dot
LocalAtDomainTld(chars) ==
    \E i, j \in 1..Len(chars) :
        /\ 1 < i /\ i + 1 < j /\ j < Len(chars)
        /\ chars[i] = "@"
        /\ chars[j] = "."
        /\ \A k \in (1..Len(chars)) \ {i} : chars[k] \notin {" ", "@"}

FormKeys ==
    { "bannerEnabled", "bannerText", "bannerType", "theme", "profileImageUrl",
      "heroName", "heroSubtitle", "heroTagline", "acceptingPatients",
      "availabilityStatus", "businessName", "location", "contactEmail" }

C24_ValidationAborts ==
    [][ (admin'.op = "saveConfig" /\ ret'.op \in {"none", "save"})
        => LET name == trim(admin'.form.heroName)
               email == trim(admin'.form.contactEmail)
               passes == /\ name # <<>>
                         /\ email # <<>>
                         /\ LocalAtDomainTld(email)
           IN /\ ~passes
                 => /\ admin'.shown.type = "error"
                    /\ ~admin'.saved
                    /\ ret'.op = "none"
                    /\ localStorage' = localStorage
                    /\ admin'.config = admin.config
              /\ passes
                 => /\ admin'.saved
                    /\ ret'.op = "save"
                    /\ DOMAIN ret'.arg = FormKeys
                    /\ ret'.arg["heroName"] = StringOf(name)
                    /\ ret'.arg["contactEmail"] = StringOf(email)
                    /\ ret'.arg["theme"] = admin'.form.theme
                    /\ Ok(ret')
                       => /\ localStorage'[storageKey]
                               = JSONstringify(Merge(defaultConfig, ret'.arg))
                          /\ admin'.shown.type = "success" ]_vars

\* the store holds a config record; a form with the email a@b is submitted
C24_Witness ==
    /\ admin.op = "saveConfig"
    /\ ret.op = "none"
    /\ ~admin.saved
    /\ admin.form.heroName = <<" ", "D", "r", " ">>
    /\ admin.form.contactEmail = <<"a", "@", "b">>
    /\ admin.shown = Message("Please enter a valid email address", "error")
    /\ localStorage[storageKey].kind = "json"


(***************************************************************************)
(* C29: when refreshAll() begins while the run of init() the constructor   *)
(* started stands at its await in applyHero(), then, both runs over, the   *)
(* src of the profile image is the image the later run set, the one it     *)
(* derived from the config it loaded.                                      *)
(***************************************************************************)
BothOver == \A r \in Runs : page.runs[r].pc = "done"

C29_LaterRunWins ==
    (BothOver /\ page.runs["refreshAll"].overlapped)
    => /\ page.src = page.runs["refreshAll"].imageToUse
       /\ page.setBy = "refreshAll"


(***************************************************************************)
(* C21: two tabs have each run update() with working storage, a tab being  *)
(* free to load and save between the load() and the save() of the other.   *)
(* Both calls returned true; the config record is the one the later save() *)
(* wrote, the later tab's updates over what it had loaded, over the        *)
(* defaults; and when the later tab loaded before the earlier one saved, a *)
(* field only the earlier tab updated has the value the later tab loaded   *)
(* (or, a key outside the defaults it did not load, is missing).           *)
(***************************************************************************)
BothUpdated == \A t \in Tabs : tabs[t].pc = "done"

Later == CHOOSE t \in Tabs : tabs[t].nth = 2

Earlier == OtherTab(Later)

C21_LastWriterWins ==
    (BothUpdated /\ \A t \in Tabs : Ok(tabs[t]))
    => LET later == tabs[Later]
           earlier == tabs[Earlier]
           stored == localStorage[storageKey]
       IN /\ later.bool /\ earlier.bool
          /\ earlier.nth = 1
          /\ stored = later.wrote
          /\ stored = JSONstringify(Merge(defaultConfig,
                                          Merge(later.current, later.updates)))
          /\ ~later.afterOtherSave
             => \A f \in (DOMAIN earlier.updates) \ (DOMAIN later.updates) :
                   IF f \in DOMAIN later.current
                   THEN stored.obj[f] = later.current[f]
                   ELSE f \notin DOMAIN stored.obj

\* both tabs load the defaults; the earlier saves a display name, the later a
\* theme: the record has the theme and the default display name
C21_Witness ==
    /\ BothUpdated /\ \A t \in Tabs : Ok(tabs[t])
    /\ ~tabs[Later].afterOtherSave
    /\ tabs[Earlier].updates = [heroName |-> "Jane Doe, FNP"]
    /\ tabs[Later].updates = [theme |-> "winter"]
    /\ tabs[Earlier].wrote.obj["heroName"] = "Jane Doe, FNP"
    /\ localStorage[storageKey].obj["theme"] = "winter"
    /\ localStorage[storageKey].obj["heroName"] = getDefaultConfig["heroName"]

====
